---- MODULE Spec2Model ----
(***************************************************************************)
(* Model of lib/encrypted-file.js: KeyVaultEncryptedFile, a file whose     *)
(* content is encrypted and decrypted through a key vault (AWS KMS).       *)
(*                                                                         *)
(* The model follows the JavaScript event loop: every action is one run    *)
(* of JavaScript code (a call of write()/read(), or a callback with the    *)
(* continuation that follows it) or one effect of the file system on the   *)
(* disk.  fs.writeFile is Node's: it opens the file with flag 'w'          *)
(* (create or truncate), writes the buffer at the descriptor's position,   *)
(* and closes; the effects of two calls in flight interleave.              *)
(***************************************************************************)
EXTENDS Integers, Sequences, FiniteSets, TLC

\* ---- bounds of the model -------------------------------------------------
MaxCalls == 2      \* number of write()/read() invocations in one behaviour
MaxLen == 2        \* longest plaintext, in bytes

Calls == 1..MaxCalls
Bytes == {0, 1}

RECURSIVE SeqsUpTo(_)
SeqsUpTo(n) ==
  IF n = 0 THEN {<<>>}
  ELSE LET shorter == SeqsUpTo(n - 1)
       IN  shorter \cup {Append(s, b) : s \in {t \in shorter : Len(t) = n - 1}, b \in Bytes}

\* the plaintexts written: the byte strings of 1..MaxLen bytes in which no
\* byte repeats its predecessor (two of every length)
Plaintexts == {s \in SeqsUpTo(MaxLen) : Len(s) >= 1 /\ \A i \in 2..Len(s) : s[i] # s[i - 1]}

\* ---- the key vault (AWS.KMS client), as a faithful stub ------------------
\* A ciphertext blob is one header byte that carries the length of the
\* plaintext, followed by the plaintext bytes shifted out of the plaintext
\* alphabet.  Decrypt checks the blob's integrity, as KMS does.
CipherShift == 2
HeaderBase == 10

VaultEncrypt(keyId, plaintext) ==
  <<HeaderBase + Len(plaintext)>> \o [i \in 1..Len(plaintext) |-> plaintext[i] + CipherShift]

VaultValid(blob) ==
  /\ Len(blob) >= 2
  /\ blob[1] = HeaderBase + Len(blob) - 1
  /\ \A i \in 2..Len(blob) : (blob[i] - CipherShift) \in Bytes

VaultDecrypt(blob) == [i \in 1..(Len(blob) - 1) |-> blob[i + 1] - CipherShift]

KmsError(op) == [src |-> "kms", code |-> op]
FsError(code) == [src |-> "fs", code |-> code]
NoError == [src |-> "", code |-> ""]

\* ---- the file system -----------------------------------------------------
FILEPATH == "nodekey"
Absent == [exists |-> FALSE, bytes |-> <<>>]
File(bytes) == [exists |-> TRUE, bytes |-> bytes]

\* open(path, 'w'): creates the file or truncates it to length 0
FsOpenW(f) == File(<<>>)

\* write(fd, data) at position 0 of a descriptor opened by this writeFile:
\* bytes of the file beyond the data are left as they are
FsWriteAt0(f, data) == File(data \o SubSeq(f.bytes, Len(data) + 1, Len(f.bytes)))

\* ---- promises ------------------------------------------------------------
Pending == [state |-> "pending", value |-> <<>>, reason |-> NoError]
Fulfilled(v) == [state |-> "fulfilled", value |-> v, reason |-> NoError]
Rejected(e) == [state |-> "rejected", value |-> <<>>, reason |-> e]

\* ---- configuration -------------------------------------------------------
\* options objects: provider and key-id are optional fields
BaseOptions == [region |-> "us-east-2"]
Providers == {"aws", "AWS", "unknown-x"}
KeyIds == {"", "custom-key"}

WithField(r, f, v) == [x \in DOMAIN r \cup {f} |-> IF x = f THEN v ELSE r[x]]

OptionSets ==
  LET withProvider == {BaseOptions} \cup {WithField(BaseOptions, "provider", p) : p \in Providers}
  IN  withProvider \cup {WithField(o, "key-id", k) : o \in withProvider, k \in KeyIds}

\* JavaScript property access: a missing property reads as undefined
Undefined == "undefined"
Has(o, f) == f \in DOMAIN o
Get(o, f) == IF Has(o, f) THEN o[f] ELSE Undefined

NoStore == [filepath |-> "", client |-> "", masterKeyId |-> ""]
NoReq == [x \in {} |-> 0]

VARIABLES
  store,        \* the KeyVaultEncryptedFile instance (NoStore: none)
  ctor,         \* the last call of the constructor: status, options, error
  file,         \* the file at FILEPATH on disk
  pc,           \* position of each invocation
  kind,         \* "write" or "read" ("" before the call)
  arg,          \* plainTextData of a write
  blob,         \* data.CiphertextBlob of a write; encrypted of a read
  promise,      \* the promise write()/read() returned
  encReq,       \* params object passed to client.encrypt
  decReq,       \* params object passed to client.decrypt
  encryptCalls, \* calls of client.encrypt, per invocation
  decryptCalls, \* calls of client.decrypt, per invocation
  writeFileCalls, \* calls of fs.writeFile, per invocation
  readFileCalls,  \* calls of fs.readFile, per invocation
  unhandled,    \* invocations whose callback promise rejected unobserved
  overlapped,   \* history: the writes since the last quiet point overlapped
  lastWritten,  \* history: plaintext of the last write that completed alone, <<>> if none or if a write started since
  expected,     \* history, per read: lastWritten when the file was read
  lastBlob      \* history: ciphertext blob of the last write that succeeded, <<>> if none

vars == <<store, ctor, file, pc, kind, arg, blob, promise, encReq, decReq,
          encryptCalls, decryptCalls, writeFileCalls, readFileCalls,
          unhandled, overlapped, lastWritten, expected, lastBlob>>

callVars == <<pc, kind, arg, blob, promise, encReq, decReq,
              encryptCalls, decryptCalls, writeFileCalls, readFileCalls,
              unhandled, overlapped, lastWritten, expected, lastBlob>>

Init ==
  /\ store = NoStore
  /\ ctor = [status |-> "none", options |-> BaseOptions, error |-> ""]
  /\ file = Absent
  /\ pc = [c \in Calls |-> "idle"]
  /\ kind = [c \in Calls |-> ""]
  /\ arg = [c \in Calls |-> <<>>]
  /\ blob = [c \in Calls |-> <<>>]
  /\ promise = [c \in Calls |-> Pending]
  /\ encReq = [c \in Calls |-> NoReq]
  /\ decReq = [c \in Calls |-> NoReq]
  /\ encryptCalls = [c \in Calls |-> 0]
  /\ decryptCalls = [c \in Calls |-> 0]
  /\ writeFileCalls = [c \in Calls |-> 0]
  /\ readFileCalls = [c \in Calls |-> 0]
  /\ unhandled = {}
  /\ overlapped = FALSE
  /\ lastWritten = <<>>
  /\ expected = [c \in Calls |-> <<>>]
  /\ lastBlob = <<>>

\* ---- construction --------------------------------------------------------
\* provider == 'aws'
IsAws(provider) == provider = "aws"

\* a getServiceClient that falls back to the AWS client for any provider
getServiceClient_Fallback(provider, options) ==
  [ok |-> TRUE, client |-> "AWS.KMS", message |-> ""]

\* getServiceClient: the client, or the message of the Error thrown
getServiceClient(provider, options) ==
  IF IsAws(provider)
  THEN [ok |-> TRUE, client |-> "AWS.KMS", message |-> ""]
  ELSE [ok |-> FALSE, client |-> "", message |-> "Unsupported key vault provider: " \o provider]

\* options['key-id'] ? options['key-id'] : 'alias/kaleido'
Truthy(o, f) == Has(o, f) /\ o[f] # ""
\* a key-id resolution that tests only for the presence of the field
MasterKeyId_PresentOnly(options) ==
  IF Has(options, "key-id") THEN options["key-id"] ELSE "alias/kaleido"

MasterKeyId(options) == IF Truthy(options, "key-id") THEN options["key-id"] ELSE "alias/kaleido"

\* new KeyVaultEncryptedFile(FILEPATH, options)
Construct(options) ==
  /\ store = NoStore
  /\ LET r == getServiceClient(Get(options, "provider"), options)
     IN  IF r.ok
         THEN /\ store' = [filepath |-> FILEPATH, client |-> r.client,
                           masterKeyId |-> MasterKeyId(options)]
              /\ ctor' = [status |-> "ok", options |-> options, error |-> ""]
         ELSE /\ store' = NoStore
              /\ ctor' = [status |-> "threw", options |-> options, error |-> r.message]
  /\ UNCHANGED <<file, callVars>>

\* ---- write ---------------------------------------------------------------
WritesInFlight == {c \in Calls : kind[c] = "write" /\ pc[c] \in {"encrypting", "opening", "writing"}}

\* invocations are numbered in the order they are made
Fresh(c) == pc[c] = "idle" /\ \A d \in Calls : d < c => pc[d] # "idle"

\* write(plainTextData): the promise executor calls client.encrypt
WriteCall(c, plainTextData) ==
  /\ store # NoStore
  /\ Fresh(c)
  /\ pc' = [pc EXCEPT ![c] = "encrypting"]
  /\ kind' = [kind EXCEPT ![c] = "write"]
  /\ arg' = [arg EXCEPT ![c] = plainTextData]
  /\ encReq' = [encReq EXCEPT ![c] = [KeyId |-> store.masterKeyId, Plaintext |-> plainTextData]]
  /\ encryptCalls' = [encryptCalls EXCEPT ![c] = @ + 1]
  /\ overlapped' = (WritesInFlight # {})
  /\ lastWritten' = <<>>
  /\ UNCHANGED <<store, ctor, file, blob, promise, decReq, decryptCalls,
                 writeFileCalls, readFileCalls, unhandled, expected, lastBlob>>

\* an encrypt callback that, on err, rejects and still writes the file
WriteEncryptErr_StillWrites(c) ==
  /\ kind[c] = "write" /\ pc[c] = "encrypting"
  /\ pc' = [pc EXCEPT ![c] = "done"]
  /\ promise' = [promise EXCEPT ![c] = Rejected(KmsError("encrypt"))]
  /\ writeFileCalls' = [writeFileCalls EXCEPT ![c] = @ + 1]
  /\ file' = FsOpenW(file)
  /\ UNCHANGED <<store, ctor, kind, arg, blob, encReq, decReq,
                 encryptCalls, decryptCalls, readFileCalls,
                 unhandled, overlapped, lastWritten, expected, lastBlob>>

\* an encrypt callback that, on err, calls client.encrypt again
WriteEncryptErr_Retries(c) ==
  /\ kind[c] = "write" /\ pc[c] = "encrypting"
  /\ encryptCalls' = [encryptCalls EXCEPT ![c] = @ + 1]
  /\ UNCHANGED <<store, ctor, file, pc, kind, arg, blob, promise, encReq, decReq,
                 decryptCalls, writeFileCalls, readFileCalls,
                 unhandled, overlapped, lastWritten, expected, lastBlob>>

\* the encrypt callback with err: reject(err)
WriteEncryptErr(c) ==
  /\ kind[c] = "write" /\ pc[c] = "encrypting"
  /\ pc' = [pc EXCEPT ![c] = "done"]
  /\ promise' = [promise EXCEPT ![c] = Rejected(KmsError("encrypt"))]
  /\ UNCHANGED <<store, ctor, file, kind, arg, blob, encReq, decReq,
                 encryptCalls, decryptCalls, writeFileCalls, readFileCalls,
                 unhandled, overlapped, lastWritten, expected, lastBlob>>

\* the encrypt callback with data: fs.writeFile(this.filepath, data.CiphertextBlob)
WriteEncryptOk(c) ==
  /\ kind[c] = "write" /\ pc[c] = "encrypting"
  /\ pc' = [pc EXCEPT ![c] = "opening"]
  /\ blob' = [blob EXCEPT ![c] = VaultEncrypt(encReq[c].KeyId, encReq[c].Plaintext)]
  /\ writeFileCalls' = [writeFileCalls EXCEPT ![c] = @ + 1]
  /\ UNCHANGED <<store, ctor, file, kind, arg, promise, encReq, decReq,
                 encryptCalls, decryptCalls, readFileCalls,
                 unhandled, overlapped, lastWritten, expected, lastBlob>>

\* the await of fs.writeFile throws inside the async callback: the promise
\* of the callback rejects, nobody observes it, and neither resolve nor
\* reject of the promise of write() is called
WriteFileThrows(c) ==
  /\ pc' = [pc EXCEPT ![c] = "abandoned"]
  /\ unhandled' = unhandled \cup {c}
  /\ UNCHANGED <<promise>>

\* fs.writeFile, step 1: open(path, 'w')
WriteFileOpen(c) ==
  /\ kind[c] = "write" /\ pc[c] = "opening"
  /\ file' = FsOpenW(file)
  /\ pc' = [pc EXCEPT ![c] = "writing"]
  /\ UNCHANGED <<store, ctor, kind, arg, blob, promise, encReq, decReq,
                 encryptCalls, decryptCalls, writeFileCalls, readFileCalls,
                 unhandled, overlapped, lastWritten, expected, lastBlob>>

\* fs.writeFile, step 1 fails (EACCES, ENOENT of the directory, ...)
WriteFileOpenFail(c) ==
  /\ kind[c] = "write" /\ pc[c] = "opening"
  /\ WriteFileThrows(c)
  /\ UNCHANGED <<store, ctor, file, kind, arg, blob, encReq, decReq,
                 encryptCalls, decryptCalls, writeFileCalls, readFileCalls,
                 overlapped, lastWritten, expected, lastBlob>>

\* fs.writeFile, step 2: write the buffer and close; then resolve()
WriteFileWrite(c) ==
  /\ kind[c] = "write" /\ pc[c] = "writing"
  /\ file' = FsWriteAt0(file, blob[c])
  /\ pc' = [pc EXCEPT ![c] = "done"]
  /\ promise' = [promise EXCEPT ![c] = Fulfilled(<<>>)]
  /\ lastWritten' = IF overlapped \/ WritesInFlight # {c} THEN <<>> ELSE arg[c]
  /\ lastBlob' = blob[c]
  /\ UNCHANGED <<store, ctor, kind, arg, blob, encReq, decReq,
                 encryptCalls, decryptCalls, writeFileCalls, readFileCalls,
                 unhandled, overlapped, expected>>

\* fs.writeFile, step 2 fails (ENOSPC, EIO): the file stays truncated
WriteFileWriteFail(c) ==
  /\ kind[c] = "write" /\ pc[c] = "writing"
  /\ WriteFileThrows(c)
  /\ UNCHANGED <<store, ctor, file, kind, arg, blob, encReq, decReq,
                 encryptCalls, decryptCalls, writeFileCalls, readFileCalls,
                 overlapped, lastWritten, expected, lastBlob>>

\* ---- read ----------------------------------------------------------------
\* read(): calls fs.readFile(this.filepath) and awaits it
ReadCall(c) ==
  /\ store # NoStore
  /\ Fresh(c)
  /\ pc' = [pc EXCEPT ![c] = "reading"]
  /\ kind' = [kind EXCEPT ![c] = "read"]
  /\ readFileCalls' = [readFileCalls EXCEPT ![c] = @ + 1]
  /\ UNCHANGED <<store, ctor, file, arg, blob, promise, encReq, decReq,
                 encryptCalls, decryptCalls, writeFileCalls,
                 unhandled, overlapped, lastWritten, expected, lastBlob>>

\* a read that swallows the failure of fs.readFile and decrypts no bytes
ReadFileFail_StillDecrypts(c) ==
  /\ kind[c] = "read" /\ pc[c] = "reading"
  /\ decReq' = [decReq EXCEPT ![c] = [CiphertextBlob |-> <<>>]]
  /\ decryptCalls' = [decryptCalls EXCEPT ![c] = @ + 1]
  /\ pc' = [pc EXCEPT ![c] = "decrypting"]
  /\ UNCHANGED <<store, ctor, file, kind, arg, blob, promise, encReq,
                 encryptCalls, writeFileCalls, readFileCalls,
                 unhandled, overlapped, lastWritten, expected, lastBlob>>

\* fs.readFile fails: the await throws, the async function rejects
ReadFileFail(c) ==
  /\ kind[c] = "read" /\ pc[c] = "reading"
  /\ \E code \in (IF file.exists THEN {"EIO"} ELSE {"ENOENT"}) :
       promise' = [promise EXCEPT ![c] = Rejected(FsError(code))]
  /\ pc' = [pc EXCEPT ![c] = "done"]
  /\ UNCHANGED <<store, ctor, file, kind, arg, blob, encReq, decReq,
                 encryptCalls, decryptCalls, writeFileCalls, readFileCalls,
                 unhandled, overlapped, lastWritten, expected, lastBlob>>

\* fs.readFile succeeds: client.decrypt({CiphertextBlob: encrypted})
ReadFileOk(c) ==
  /\ kind[c] = "read" /\ pc[c] = "reading"
  /\ file.exists
  /\ blob' = [blob EXCEPT ![c] = file.bytes]
  /\ decReq' = [decReq EXCEPT ![c] = [CiphertextBlob |-> file.bytes]]
  /\ decryptCalls' = [decryptCalls EXCEPT ![c] = @ + 1]
  /\ expected' = [expected EXCEPT ![c] = IF WritesInFlight = {} THEN lastWritten ELSE <<>>]
  /\ pc' = [pc EXCEPT ![c] = "decrypting"]
  /\ UNCHANGED <<store, ctor, file, kind, arg, promise, encReq,
                 encryptCalls, writeFileCalls, readFileCalls,
                 unhandled, overlapped, lastWritten, lastBlob>>

\* the decrypt callback with err: reject(err)
ReadDecryptErr(c) ==
  /\ kind[c] = "read" /\ pc[c] = "decrypting"
  /\ pc' = [pc EXCEPT ![c] = "done"]
  /\ promise' = [promise EXCEPT ![c] = Rejected(KmsError("decrypt"))]
  /\ UNCHANGED <<store, ctor, file, kind, arg, blob, encReq, decReq,
                 encryptCalls, decryptCalls, writeFileCalls, readFileCalls,
                 unhandled, overlapped, lastWritten, expected, lastBlob>>

\* a decrypt callback that resolves with the bytes it was given
ReadDecryptOk_ReturnsBlob(c) ==
  /\ kind[c] = "read" /\ pc[c] = "decrypting"
  /\ VaultValid(decReq[c].CiphertextBlob)
  /\ pc' = [pc EXCEPT ![c] = "done"]
  /\ promise' = [promise EXCEPT ![c] = Fulfilled(decReq[c].CiphertextBlob)]
  /\ UNCHANGED <<store, ctor, file, kind, arg, blob, encReq, decReq,
                 encryptCalls, decryptCalls, writeFileCalls, readFileCalls,
                 unhandled, overlapped, lastWritten, expected, lastBlob>>

\* the decrypt callback with data: resolve(data.Plaintext)
ReadDecryptOk(c) ==
  /\ kind[c] = "read" /\ pc[c] = "decrypting"
  /\ VaultValid(decReq[c].CiphertextBlob)
  /\ pc' = [pc EXCEPT ![c] = "done"]
  /\ promise' = [promise EXCEPT ![c] = Fulfilled(VaultDecrypt(decReq[c].CiphertextBlob))]
  /\ UNCHANGED <<store, ctor, file, kind, arg, blob, encReq, decReq,
                 encryptCalls, decryptCalls, writeFileCalls, readFileCalls,
                 unhandled, overlapped, lastWritten, expected, lastBlob>>

Next ==
  \/ \E o \in OptionSets : Construct(o)
  \/ \E c \in Calls, p \in Plaintexts : WriteCall(c, p)
  \/ \E c \in Calls : WriteEncryptErr(c)
  \/ \E c \in Calls : WriteEncryptOk(c)
  \/ \E c \in Calls : WriteFileOpen(c)
  \/ \E c \in Calls : WriteFileOpenFail(c)
  \/ \E c \in Calls : WriteFileWrite(c)
  \/ \E c \in Calls : WriteFileWriteFail(c)
  \/ \E c \in Calls : ReadCall(c)
  \/ \E c \in Calls : ReadFileFail(c)
  \/ \E c \in Calls : ReadFileOk(c)
  \/ \E c \in Calls : ReadDecryptErr(c)
  \/ \E c \in Calls : ReadDecryptOk(c)

Spec == Init /\ [][Next]_vars


\* ==== properties ===========================================================
Writes == {c \in Calls : kind[c] = "write"}
Reads == {c \in Calls : kind[c] = "read"}
EncryptSucceeded(c) == c \in Writes /\ (pc[c] \in {"opening", "writing", "abandoned"} \/ promise[c].state = "fulfilled")
FileReadSucceeded(c) == c \in Reads /\ (pc[c] = "decrypting" \/ (pc[c] = "done" /\ promise[c].reason.src # "fs"))

\* C1: a read() that follows a completed write(P), with no other write
\* overlapping that write or started since, returns exactly P.
RoundTrip ==
  \A c \in Reads :
    (promise[c].state = "fulfilled" /\ expected[c] # <<>>) => promise[c].value = expected[c]

RoundTripWitness ==
  \E c \in Reads, w \in Writes :
    /\ promise[w].state = "fulfilled"
    /\ promise[c].state = "fulfilled"
    /\ expected[c] = arg[w]
    /\ Len(arg[w]) = MaxLen

\* C2: when encrypt succeeded and the file write failed, the promise of
\* write() is rejected with the storage error.
WriteFileFailureRejects ==
  \A c \in Writes :
    (writeFileCalls[c] = 1 /\ c \in unhandled) =>
      (promise[c].state = "rejected" /\ promise[c].reason.src = "fs")

\* C3: when encrypt fails, write() rejects with the vault error, fs.writeFile
\* is not called and the file is left as it was.
EncryptFailureStep ==
  \A c \in Writes :
    (pc[c] = "encrypting" /\ promise'[c].state = "rejected") =>
      /\ promise'[c].reason = KmsError("encrypt")
      /\ writeFileCalls'[c] = 0
      /\ file' = file

EncryptFailureIsolation ==
  /\ [](\A c \in Writes : promise[c].state = "rejected" =>
          (promise[c].reason = KmsError("encrypt") /\ writeFileCalls[c] = 0 /\ blob[c] = <<>>))
  /\ [][EncryptFailureStep]_vars

EncryptFailureWitness ==
  \E c \in Writes :
    /\ promise[c].state = "rejected"
    /\ file.exists /\ VaultValid(file.bytes)

\* C4: read() of a file that does not exist or cannot be read rejects with
\* the storage error, and client.decrypt is not called by that read().
ReadMissingStep ==
  \A c \in Reads :
    (pc[c] = "reading" /\ pc'[c] # "reading" /\ ~file.exists) =>
      /\ promise'[c] = Rejected(FsError("ENOENT"))
      /\ decryptCalls'[c] = 0
      /\ decReq'[c] = NoReq

ReadBeforeWrite ==
  /\ [](\A c \in Reads : (promise[c].state = "rejected" /\ promise[c].reason.src = "fs") =>
          (decryptCalls[c] = 0 /\ decReq[c] = NoReq))
  /\ [][ReadMissingStep]_vars

ReadBeforeWriteWitness ==
  \E c \in Reads : promise[c] = Rejected(FsError("ENOENT")) /\ ~file.exists

\* the key identifier the configuration asks for
ConfiguredKeyId(options) ==
  IF "key-id" \in DOMAIN options /\ options["key-id"] # ""
  THEN options["key-id"]
  ELSE "alias/kaleido"

\* C5 (as stated): the resolved key identifier is passed to every encrypt
\* and every decrypt call.
KeyIdInEveryVaultCall ==
  \A c \in Calls :
    /\ encReq[c] # NoReq => encReq[c].KeyId = ConfiguredKeyId(ctor.options)
    /\ decReq[c] # NoReq => ("KeyId" \in DOMAIN decReq[c] /\ decReq[c].KeyId = ConfiguredKeyId(ctor.options))

\* C5 (amended): the resolved key identifier (the default alias when key-id
\* is absent or empty, else the configured string) is passed to every
\* encrypt call; a decrypt call carries the ciphertext blob only.
KeyIdInEveryEncryptCall ==
  \A c \in Calls :
    /\ encReq[c] # NoReq => encReq[c].KeyId = ConfiguredKeyId(ctor.options)
    /\ decReq[c] # NoReq => DOMAIN decReq[c] = {"CiphertextBlob"}

KeyIdWitness ==
  /\ Get(ctor.options, "key-id") = ""
  /\ \E c \in Calls : encReq[c] # NoReq /\ encReq[c].KeyId = "alias/kaleido"
  /\ \E c \in Calls : decReq[c] # NoReq

\* C6: a configuration without a provider field constructs a store bound to
\* the AWS client.
ProviderDefaultsToAws ==
  (ctor.status # "none" /\ "provider" \notin DOMAIN ctor.options) =>
    (ctor.status = "ok" /\ store # NoStore /\ store.client = "AWS.KMS")

\* C7: construction with a provider other than "aws" throws an error that
\* carries the provider, creates no store, and touches neither the file
\* nor the vault.
UnsupportedProviderStep ==
  (ctor' # ctor /\ "provider" \in DOMAIN ctor'.options /\ ctor'.options.provider # "aws") =>
    /\ ctor'.status = "threw"
    /\ ctor'.error = "Unsupported key vault provider: " \o ctor'.options.provider
    /\ store' = NoStore
    /\ file' = file
    /\ encReq' = encReq /\ decReq' = decReq
    /\ encryptCalls' = encryptCalls /\ decryptCalls' = decryptCalls
    /\ writeFileCalls' = writeFileCalls /\ readFileCalls' = readFileCalls

ProviderValidation ==
  /\ [](("provider" \in DOMAIN ctor.options /\ ctor.options.provider # "aws") =>
          (store = NoStore /\ \A c \in Calls : pc[c] = "idle"))
  /\ [][UnsupportedProviderStep]_vars

ProviderValidationWitness ==
  /\ ctor.status = "threw"
  /\ Get(ctor.options, "provider") = "unknown-x"
  /\ store = NoStore

\* C8: once two concurrent writes have both completed, the file holds
\* exactly the ciphertext blob of one of them.
LastWriterWins ==
  \A c, d \in Writes :
    (c # d /\ Writes = {c, d} /\ promise[c].state = "fulfilled" /\ promise[d].state = "fulfilled") =>
      (file = File(blob[c]) \/ file = File(blob[d]))

\* C9: the file is absent or holds exactly the ciphertext blob of the most
\* recent successful write().
FileHoldsLastCiphertext ==
  file.exists => (lastBlob # <<>> /\ file.bytes = lastBlob)

\* C10: one attempt of each step per invocation, and no second attempt
\* after a failure.
SingleAttempt ==
  \A c \in Calls :
    /\ encryptCalls[c] <= 1 /\ writeFileCalls[c] <= 1
    /\ readFileCalls[c] <= 1 /\ decryptCalls[c] <= 1
    /\ c \in Writes =>
         /\ encryptCalls[c] = 1
         /\ readFileCalls[c] = 0 /\ decryptCalls[c] = 0
         /\ (writeFileCalls[c] = 1) <=> EncryptSucceeded(c)
    /\ c \in Reads =>
         /\ readFileCalls[c] = 1
         /\ encryptCalls[c] = 0 /\ writeFileCalls[c] = 0
         /\ (decryptCalls[c] = 1) <=> FileReadSucceeded(c)

SingleAttemptWitness ==
  /\ \E c \in Writes : promise[c].state = "fulfilled" /\ encryptCalls[c] = 1 /\ writeFileCalls[c] = 1
  /\ \E c \in Reads : promise[c] = Rejected(KmsError("decrypt")) /\ readFileCalls[c] = 1 /\ decryptCalls[c] = 1

====
